---- MODULE Spec2Model ----
(***************************************************************************)
(* Model of the definition handler (pages/api/getMeanings): word           *)
(* extraction, the per-word definition lookup with its timeout timer and   *)
(* process-wide cache, and the batch orchestration of one POST request.    *)
(*                                                                         *)
(* Strings are sequences of one-character strings, so that the regular     *)
(* expression match, toLowerCase and the Set deduplication are computed    *)
(* and not assumed.                                                        *)
(***************************************************************************)
EXTENDS Integers, Sequences, FiniteSets, TLC

(***************************************************************************)
(* Bounds of the model.                                                    *)
(***************************************************************************)
\* longest enumerated request text, in characters
MaxLen == 5
\* largest positive wordSize drawn for a request
MaxWordSize == 2

(***************************************************************************)
(* Program constants.                                                      *)
(***************************************************************************)
\* words.slice(0, 10)
MaxWords == 10

(***************************************************************************)
(* Characters and strings.                                                 *)
(***************************************************************************)
LowerSeq ==
  << "a", "b", "c", "d", "e", "f", "g", "h", "i", "j", "k", "l", "m",
     "n", "o", "p", "q", "r", "s", "t", "u", "v", "w", "x", "y", "z" >>

UpperSeq ==
  << "A", "B", "C", "D", "E", "F", "G", "H", "I", "J", "K", "L", "M",
     "N", "O", "P", "Q", "R", "S", "T", "U", "V", "W", "X", "Y", "Z" >>

DigitSeq == << "0", "1", "2", "3", "4", "5", "6", "7", "8", "9" >>

Range(s) == { s[i] : i \in DOMAIN s }

Min(a, b) == IF a < b THEN a ELSE b

\* the class \w of a JavaScript regular expression: [A-Za-z0-9_]
IsWordChar(c) == c \in Range(LowerSeq) \cup Range(UpperSeq) \cup Range(DigitSeq) \cup {"_"}

\* String.prototype.toLowerCase on one character
LowerChar(c) ==
  IF c \in Range(UpperSeq)
  THEN LowerSeq[CHOOSE i \in DOMAIN UpperSeq : UpperSeq[i] = c]
  ELSE c

\* String.prototype.toLowerCase
ToLowerCase(s) == [i \in DOMAIN s |-> LowerChar(s[i])]

\* String(n) for the integers a request carries (one decimal digit)
NumberToString(n) ==
  IF n < 0 THEN << "-", DigitSeq[(-n) + 1] >> ELSE << DigitSeq[n + 1] >>

(***************************************************************************)
(* JavaScript values of the request body.                                  *)
(***************************************************************************)
Undefined == [t |-> "undefined"]
Str(s) == [t |-> "string", s |-> s]
Num(n) == [t |-> "number", n |-> n]

\* ToBoolean: undefined, "" and 0 are falsy
Truthy(v) ==
  CASE v.t = "undefined" -> FALSE
    [] v.t = "string" -> v.s # << >>
    [] v.t = "number" -> v.n # 0

(***************************************************************************)
(* Word extraction: text.match(new RegExp(`\\b\\w{${wordSize},}\\b`, 'g')) *)
(***************************************************************************)
\* last index of the run of word characters that starts at p
RECURSIVE RunEnd(_, _)
RunEnd(text, p) ==
  IF p < Len(text) /\ IsWordChar(text[p + 1]) THEN RunEnd(text, p + 1) ELSE p

\* \b holds between positions p-1 and p: exactly one side is a word character
Boundary(text, p) ==
  LET before == p > 1 /\ IsWordChar(text[p - 1])
      after == p <= Len(text) /\ IsWordChar(text[p])
  IN before # after

\* n >= 1: {n,} is a quantifier; the greedy \w{n,} between two \b takes a
\* whole run of word characters, and matches when the run has n or more
RECURSIVE MatchRuns(_, _, _)
MatchRuns(text, n, p) ==
  IF p > Len(text) THEN << >>
  ELSE IF ~IsWordChar(text[p]) THEN MatchRuns(text, n, p + 1)
  ELSE LET e == RunEnd(text, p)
       IN (IF e - p + 1 >= n THEN << SubSeq(text, p, e) >> ELSE << >>)
            \o MatchRuns(text, n, e + 1)

\* n < 0: {-n,} is no quantifier, so the braces and what they hold are
\* literal characters: \b \w "{-n,}" \b
RECURSIVE MatchLiteral(_, _, _)
MatchLiteral(text, n, p) ==
  LET tail == << "{" >> \o NumberToString(n) \o << ",", "}" >>
      q == p + Len(tail)
  IN IF p > Len(text) THEN << >>
     ELSE IF /\ Boundary(text, p)
             /\ IsWordChar(text[p])
             /\ q <= Len(text)
             /\ SubSeq(text, p + 1, q) = tail
             /\ Boundary(text, q + 1)
          THEN << SubSeq(text, p, q) >> \o MatchLiteral(text, n, q + 1)
          ELSE MatchLiteral(text, n, p + 1)

\* text.match(regexp) || []
Match(text, n) ==
  IF n >= 1 THEN MatchRuns(text, n, 1) ELSE MatchLiteral(text, n, 1)

\* .map(word => word.toLowerCase())
MapLower(ws) == [i \in DOMAIN ws |-> ToLowerCase(ws[i])]

\* .filter(word => word.length >= wordSize)
RECURSIVE FilterLength(_, _)
FilterLength(ws, n) ==
  IF ws = << >> THEN << >>
  ELSE (IF Len(Head(ws)) >= n THEN << Head(ws) >> ELSE << >>)
         \o FilterLength(Tail(ws), n)

\* Array.from(new Set(ws)): a Set keeps the first insertion of each value
RECURSIVE AppendNew(_, _)
AppendNew(acc, ws) ==
  IF ws = << >> THEN acc
  ELSE AppendNew(IF Head(ws) \in Range(acc) THEN acc ELSE Append(acc, Head(ws)),
                 Tail(ws))

ArrayFromSet(ws) == AppendNew(<< >>, ws)

\* the pipeline with the Set built before the case folding
ExtractWordsSetFirst(text, n) ==
  MapLower(ArrayFromSet(FilterLength(Match(text, n), n)))

\* the words of a request: lines 94-100
ExtractWords(text, n) ==
  ArrayFromSet(FilterLength(MapLower(Match(text, n)), n))

\* a slice that forgets the limit
SliceAll(ws) == ws

\* words.slice(0, 10)
LimitWords(ws) == SubSeq(ws, 1, IF Len(ws) < MaxWords THEN Len(ws) ELSE MaxWords)

\* a validation without the test for an empty text
ValidBodyAllowEmpty(body) ==
  /\ body.text.t = "string"
  /\ Truthy(body.wordSize)

\* !( !text || typeof text !== 'string' || !wordSize )
ValidBody(body) ==
  /\ Truthy(body.text)
  /\ body.text.t = "string"
  /\ Truthy(body.wordSize)

(***************************************************************************)
(* The JSON value an external response carries, and the JavaScript         *)
(* property accesses parse makes on it.                                    *)
(***************************************************************************)
JUndefined == [t |-> "undefined"]
JNull == [t |-> "null"]
JString(v) == [t |-> "jstring", v |-> v]
JArray(items) == [t |-> "array", items |-> items]
JObject(fields) == [t |-> "object", fields |-> fields]
\* the TypeError of a property read on undefined or null
Throw == [t |-> "throw"]

Nullish(v) == v.t \in {"undefined", "null"}

\* v[0]
Index0(v) ==
  CASE Nullish(v) -> Throw
    [] v.t = "array" -> IF v.items = << >> THEN JUndefined ELSE v.items[1]
    [] v.t = "jstring" -> JString("c")
    [] OTHER -> JUndefined

\* v.k
Prop(v, k) ==
  CASE Nullish(v) -> Throw
    [] v.t = "object" -> IF k \in DOMAIN v.fields THEN v.fields[k] ELSE JUndefined
    [] OTHER -> JUndefined

\* data[0]?.meanings[0]: the ?. guards data[0] alone, the [0] after
\* .meanings is unguarded
FirstMeaning(data) ==
  LET d0 == Index0(data)
  IN IF d0 = Throw THEN Throw
     ELSE IF Nullish(d0) THEN JUndefined
     ELSE Index0(Prop(d0, "meanings"))

\* data[0]?.meanings[0]?.partOfSpeech
PartOfSpeechOf(data) ==
  LET m0 == FirstMeaning(data)
  IN IF m0 = Throw THEN Throw
     ELSE IF Nullish(m0) THEN JUndefined
     ELSE Prop(m0, "partOfSpeech")

\* data[0]?.meanings[0]?.definitions[0]
FirstDefinition(data) ==
  LET m0 == FirstMeaning(data)
  IN IF m0 = Throw THEN Throw
     ELSE IF Nullish(m0) THEN JUndefined
     ELSE Index0(Prop(m0, "definitions"))

\* data[0]?.meanings[0]?.definitions[0]?.<k>
DefinitionField(data, k) ==
  LET d == FirstDefinition(data)
  IN IF d = Throw THEN Throw
     ELSE IF Nullish(d) THEN JUndefined
     ELSE Prop(d, k)

\* x || 'No advanced definition found.'
NoAdvanced == JString("No advanced definition found.")

JTruthy(v) == ~Nullish(v) /\ v # JString("")

\* academicSources[0].parse: Throw when any of the three reads throws
Parse(data) ==
  LET def == DefinitionField(data, "definition")
      pos == PartOfSpeechOf(data)
      ex == DefinitionField(data, "example")
  IN IF Throw \in {def, pos, ex} THEN Throw
     ELSE [definition |-> IF JTruthy(def) THEN def ELSE NoAdvanced,
           partOfSpeech |-> pos,
           example |-> ex,
           icon |-> JUndefined]

\* examWordIcons, the emoji written by name
ExamWordIcons ==
  (<< "a", "n", "a", "l", "y", "z", "e" >> :> "magnifier") @@
  (<< "h", "y", "p", "o", "t", "h", "e", "s", "i", "s" >> :> "test_tube") @@
  (<< "r", "e", "s", "e", "a", "r", "c", "h" >> :> "bar_chart") @@
  (<< "t", "h", "e", "o", "r", "y" >> :> "bulb") @@
  (<< "d", "a", "t", "a" >> :> "chart_up") @@
  (<< "m", "e", "t", "h", "o", "d" >> :> "microscope") @@
  (<< "c", "o", "n", "c", "l", "u", "s", "i", "o", "n" >> :> "check_mark") @@
  (<< "e", "v", "i", "d", "e", "n", "c", "e" >> :> "detective") @@
  (<< "s", "t", "u", "d", "y" >> :> "books") @@
  (<< "a", "c", "a", "d", "e", "m", "i", "c" >> :> "graduation_cap") @@
  (<< "k", "n", "o", "w", "l", "e", "d", "g", "e" >> :> "glowing_star") @@
  (<< "c", "o", "m", "p", "l", "e", "x" >> :> "puzzle_piece") @@
  (<< "t", "e", "r", "m", "i", "n", "o", "l", "o", "g", "y" >> :> "speech_balloon") @@
  (<< "s", "o", "p", "h", "i", "s", "t", "i", "c", "a", "t", "e", "d" >> :> "trophy") @@
  (<< "l", "i", "n", "g", "u", "i", "s", "t", "i", "c" >> :> "globe")

\* examWordIcons[word.toLowerCase()] || (graduation cap)
IconOf(word) ==
  LET w == ToLowerCase(word)
  IN JString(IF w \in DOMAIN ExamWordIcons THEN ExamWordIcons[w] ELSE "graduation_cap")

\* `No academic definition found for ${word}.` with the question-mark icon
Sentinel(word) ==
  [definition |-> [t |-> "template", v |-> "No academic definition found for ", word |-> word],
   partOfSpeech |-> JUndefined,
   example |-> JUndefined,
   icon |-> JString("question_mark")]

(***************************************************************************)
(* Bodies the external source answers with.                                *)
(***************************************************************************)
\* [{meanings: [{partOfSpeech, definitions: [{definition, example}]}]}]
PayloadFull ==
  JArray(<< JObject([meanings |-> JArray(<< JObject(
    [partOfSpeech |-> JString("noun"),
     definitions |-> JArray(<< JObject([definition |-> JString("d1"),
                                        example |-> JString("e1")]) >>)]) >>)]) >>)

\* a second definition, without part of speech and example
PayloadBare ==
  JArray(<< JObject([meanings |-> JArray(<< JObject(
    [definitions |-> JArray(<< JObject([definition |-> JString("d2")]) >>)]) >>)]) >>)

\* the documented shape with the definition text absent
PayloadNoDefinition ==
  JArray(<< JObject([meanings |-> JArray(<< JObject(
    [definitions |-> JArray(<< JObject([language |-> JString("en")]) >>)]) >>)]) >>)

\* a JSON object where the array is expected, such as an error document
PayloadObject == JObject([title |-> JString("No Definitions Found")])

\* []
PayloadEmptyArray == JArray(<< >>)

\* [{}]
PayloadNoMeanings == JArray(<< JObject([word |-> JString("w")]) >>)

\* [{meanings: [{partOfSpeech}]}]
PayloadNoDefinitions ==
  JArray(<< JObject([meanings |-> JArray(<< JObject(
    [partOfSpeech |-> JString("noun")]) >>)]) >>)

Payloads ==
  { PayloadFull, PayloadBare, PayloadNoDefinition, PayloadObject,
    PayloadEmptyArray, PayloadNoMeanings, PayloadNoDefinitions, JNull }

\* the shape section 6 documents: an array whose first element is an object
\* with meanings[0] an object and meanings[0].definitions[0] an object; the
\* leaves partOfSpeech, definition and example may be absent
IsObjectAt(v) == v.t = "object"

Shaped(data) ==
  /\ data.t = "array"
  /\ data.items # << >>
  /\ IsObjectAt(data.items[1])
  /\ IsObjectAt(FirstMeaning(data))
  /\ IsObjectAt(FirstDefinition(data))

(***************************************************************************)
(* State.                                                                  *)
(***************************************************************************)
\* requests that arrive, numbered in the order of their arrival
NumReq == 2

Slots == 1 .. NumReq

VARIABLES
  definitionCache,  \* the Map word -> ExamWordDefinition
  cacheOrigin,      \* history: how the lookup that stored each entry ended
  req,              \* per slot: the invocation of handler
  extract,          \* one invocation followed through its synchronous part
  view              \* the client view: its React state and its submits

vars == << definitionCache, cacheOrigin, req, extract, view >>

NoResponse ==
  [status |-> 0, error |-> "", allow |-> "", meanings |-> << >>,
   totalWordsFound |-> 0, processedWords |-> 0]

NoBody == [text |-> Undefined, wordSize |-> Undefined]

Idle ==
  [pc |-> "idle", method |-> "", body |-> NoBody, words |-> << >>,
   limitedWords |-> << >>, lookups |-> << >>, order |-> << >>,
   prior |-> {}, priorOk |-> {}, priorFailed |-> {}, response |-> NoResponse]

\* bodies of the POST requests of the interleaved specification
RequestBodies ==
  { [text |-> Str(<< "a", "b", " ", "c" >>), wordSize |-> Num(2)],
    [text |-> Str(<< "C", "d", " ", "c", "D" >>), wordSize |-> Num(2)],
    [text |-> Str(<< "a", "b" >>), wordSize |-> Num(-1)],
    [text |-> Str(<< >>), wordSize |-> Num(2)],
    [text |-> Num(5), wordSize |-> Num(2)],
    [text |-> Str(<< "a", "b" >>), wordSize |-> Undefined],
    [text |-> Str(<< "a", "b" >>), wordSize |-> Num(0)] }

\* the requests that arrive: a POST with a body, or a GET without one
Requests ==
  { [method |-> "POST", body |-> b] : b \in RequestBodies }
    \cup { [method |-> "GET", body |-> NoBody] }

(***************************************************************************)
(* fetchExamDefinitionWithFallback                                         *)
(***************************************************************************)
\* a cache that is never consulted
CacheNeverHit(word) == FALSE

\* definitionCache.has(word)
CacheHit(word) == word \in DOMAIN definitionCache

\* a store that drops every other entry
CacheSetEvict(cache, word, entry) == [w \in {word} |-> entry]

\* definitionCache.set(word, definition)
CacheSet(cache, word, entry) ==
  [w \in DOMAIN cache \cup {word} |-> IF w = word THEN entry ELSE cache[w]]

\* no entry yet: the promise of the lookup is pending
NoEntry ==
  [definition |-> JUndefined, partOfSpeech |-> JUndefined,
   example |-> JUndefined, icon |-> JUndefined]

\* the call of one word, up to its first await: a cache hit returns the
\* entry, a miss arms the timer and issues the fetch
StartLookup(word) ==
  IF CacheHit(word)
  THEN [word |-> word, st |-> "fulfilled", timer |-> "none", fetched |-> FALSE,
        outcome |-> "hit", result |-> definitionCache[word]]
  ELSE [word |-> word, st |-> "fetching", timer |-> "pending", fetched |-> TRUE,
        outcome |-> "none", result |-> NoEntry]

\* the lookup returns entry, having ended the way outcome names
Settle(lk, outcome, entry) ==
  [lk EXCEPT !.st = "fulfilled", !.outcome = outcome, !.result = entry]

\* definition.icon = examWordIcons[word.toLowerCase()] || (graduation cap)
WithIcon(entry, word) == [entry EXCEPT !.icon = IconOf(word)]

(***************************************************************************)
(* handler                                                                 *)
(***************************************************************************)
\* the object the map callback returns for one word
MeaningOf(lk) ==
  [word |-> lk.word, meaning |-> lk.result.definition,
   partOfSpeech |-> lk.result.partOfSpeech, example |-> lk.result.example,
   icon |-> lk.result.icon]

RECURSIVE FilterFulfilled(_)
FilterFulfilled(lks) ==
  IF lks = << >> THEN << >>
  ELSE (IF Head(lks).st = "fulfilled" THEN << Head(lks) >> ELSE << >>)
         \o FilterFulfilled(Tail(lks))

\* the values collected in the order the lookups completed
MeaningsByCompletion(rq) ==
  [k \in DOMAIN rq.order |-> MeaningOf(rq.lookups[rq.order[k]])]

\* meaningResults.filter(fulfilled).map(value): Promise.allSettled keeps
\* the order of the promises it was given
Meanings(rq) ==
  LET kept == FilterFulfilled(rq.lookups)
  IN [k \in DOMAIN kept |-> MeaningOf(kept[k])]

\* totalWordsFound: words.length
TotalWordsFound(words) == Len(words)

\* processedWords: limitedWords.length
ProcessedWords(limitedWords) == Len(limitedWords)

\* words of the requests answered 200 so far
AnsweredWords ==
  UNION { Range(req[q].limitedWords) :
            q \in { s \in Slots : req[s].pc = "done" /\ req[s].response.status = 200 } }

\* those of them an answered request looked up externally with success
AnsweredOk ==
  { w \in AnsweredWords :
      \E q \in Slots : /\ req[q].pc = "done"
                       /\ \E i \in DOMAIN req[q].lookups :
                            /\ req[q].lookups[i].word = w
                            /\ req[q].lookups[i].outcome = "ok" }

\* the outcomes of a lookup that count as a failure of the external call
Failures == {"network", "status", "timeout", "badjson", "malformed"}

\* those of them whose every lookup by an answered request failed
AnsweredFailed ==
  { w \in AnsweredWords :
      \A q \in Slots : \A i \in DOMAIN req[q].lookups :
        (req[q].pc = "done" /\ req[q].lookups[i].word = w)
          => req[q].lookups[i].outcome \in Failures }

\* a handler that takes every method for a POST
IsPostAlways(method) == TRUE

\* req.method === 'POST'
IsPost(method) == method = "POST"

\* handler runs to its first await, as the invocation of slot r
Invoke(r, method, body) ==
  /\ req[r].pc = "idle"
  /\ IF ~IsPost(method)
     THEN req' = [req EXCEPT ![r] =
            [Idle EXCEPT !.pc = "done", !.method = method, !.body = body,
               !.response = [NoResponse EXCEPT !.status = 405, !.allow = "POST"]]]
     ELSE IF ~ValidBody(body)
     THEN req' = [req EXCEPT ![r] =
            [Idle EXCEPT !.pc = "done", !.method = method, !.body = body,
               !.response = [NoResponse EXCEPT !.status = 400,
                                               !.error = "Invalid exam input"]]]
     ELSE LET words == ExtractWords(body.text.s, body.wordSize.n)
              limitedWords == LimitWords(words)
          IN req' = [req EXCEPT ![r] =
               [Idle EXCEPT !.pc = "waiting", !.method = method, !.body = body,
                  !.words = words, !.limitedWords = limitedWords,
                  !.lookups = [i \in DOMAIN limitedWords |-> StartLookup(limitedWords[i])],
                  !.order = SelectSeq([i \in DOMAIN limitedWords |-> i],
                                      LAMBDA i : CacheHit(limitedWords[i])),
                  !.prior = AnsweredWords, !.priorOk = AnsweredOk,
                  !.priorFailed = AnsweredFailed]]
  /\ UNCHANGED << definitionCache, cacheOrigin, extract, view >>

\* the r-th request arrives
Handle(r, method, body) ==
  /\ \A q \in Slots : q < r => req[q].pc # "idle"
  /\ Invoke(r, method, body)

Fetching(r, i) ==
  /\ req[r].pc = "waiting"
  /\ i \in DOMAIN req[r].lookups
  /\ req[r].lookups[i].st = "fetching"

Reading(r, i) ==
  /\ req[r].pc = "waiting"
  /\ i \in DOMAIN req[r].lookups
  /\ req[r].lookups[i].st = "reading"

SetLookup(r, i, lk) ==
  req' = [req EXCEPT ![r].lookups[i] = lk,
                     ![r].order = IF lk.st = "fulfilled" /\ req[r].lookups[i].st # "fulfilled"
                                  THEN Append(@, i) ELSE @]

\* fetch resolves with the response headers: clearTimeout(id), then
\* response.ok decides between reading the body and returning null
FetchResponds(r, i, ok) ==
  /\ Fetching(r, i)
  /\ req[r].lookups[i].timer = "pending"
  /\ LET lk == [req[r].lookups[i] EXCEPT !.timer = "cleared"]
     IN SetLookup(r, i, IF ok THEN [lk EXCEPT !.st = "reading"]
                        ELSE Settle(lk, "status", Sentinel(lk.word)))
  /\ UNCHANGED << definitionCache, cacheOrigin, extract, view >>

\* fetch rejects with a network error: the catch block, clearTimeout skipped
FetchFails(r, i) ==
  /\ Fetching(r, i)
  /\ SetLookup(r, i, Settle(req[r].lookups[i], "network", Sentinel(req[r].lookups[i].word)))
  /\ UNCHANGED << definitionCache, cacheOrigin, extract, view >>

\* the timer runs controller.abort(): a fetch still pending rejects with an
\* AbortError; after the fetch has ended the abort does nothing
TimerFires(r, i) ==
  /\ i \in DOMAIN req[r].lookups
  /\ req[r].lookups[i].timer = "pending"
  /\ LET lk == [req[r].lookups[i] EXCEPT !.timer = "fired"]
     IN SetLookup(r, i, IF lk.st = "fetching"
                        THEN Settle(lk, "timeout", Sentinel(lk.word))
                        ELSE lk)
  /\ UNCHANGED << definitionCache, cacheOrigin, extract, view >>

\* response.json() resolves with data: parse, and on a definition the icon,
\* the cache store and the return; a throw of parse is caught
BodyArrives(r, i, data) ==
  /\ Reading(r, i)
  /\ LET lk == req[r].lookups[i]
         parsed == Parse(data)
         outcome == IF Shaped(data) THEN "ok" ELSE "malformed"
     IN IF parsed = Throw
        THEN /\ SetLookup(r, i, Settle(lk, outcome, Sentinel(lk.word)))
             /\ UNCHANGED << definitionCache, cacheOrigin >>
        ELSE /\ SetLookup(r, i, Settle(lk, outcome, WithIcon(parsed, lk.word)))
             /\ definitionCache' = CacheSet(definitionCache, lk.word, WithIcon(parsed, lk.word))
             /\ cacheOrigin' = [w \in DOMAIN definitionCache' |->
                                  IF w = lk.word THEN outcome ELSE cacheOrigin[w]]
  /\ UNCHANGED << extract, view >>

\* response.json() rejects: the body is no JSON, or the connection broke
BodyFails(r, i) ==
  /\ Reading(r, i)
  /\ SetLookup(r, i, Settle(req[r].lookups[i], "badjson", Sentinel(req[r].lookups[i].word)))
  /\ UNCHANGED << definitionCache, cacheOrigin, extract, view >>

\* Promise.allSettled resolves once no lookup is pending: the 200 response
Respond(r) ==
  /\ req[r].pc = "waiting"
  /\ \A i \in DOMAIN req[r].lookups : req[r].lookups[i].st = "fulfilled"
  /\ req' = [req EXCEPT ![r].pc = "done",
                        ![r].response = [NoResponse EXCEPT
                           !.status = 200,
                           !.meanings = Meanings(req[r]),
                           !.totalWordsFound = TotalWordsFound(req[r].words),
                           !.processedWords = ProcessedWords(req[r].limitedWords)]]
  /\ UNCHANGED << definitionCache, cacheOrigin, extract, view >>

NoExtract == [pc |-> "off", body |-> NoBody, words |-> << >>, limitedWords |-> << >>,
              launched |-> 0, response |-> NoResponse]

\* one call of handleSubmit: where it stands, and what its closure and its
\* awaits hold
NoSubmit == [pc |-> "none", text |-> << >>, wordSize |-> 0, ok |-> FALSE]

\* the state of the view after the first render (useState initial values)
InitialView ==
  [on |-> FALSE, text |-> << >>, wordSize |-> 7, meanings |-> << >>,
   isLoading |-> FALSE, error |-> "", submits |-> [r \in Slots |-> NoSubmit]]

Init ==
  /\ definitionCache = << >>
  /\ cacheOrigin = << >>
  /\ req = [r \in Slots |-> Idle]
  /\ extract = NoExtract
  /\ view = InitialView

Next ==
  \/ \E r \in Slots, rq \in Requests : Handle(r, rq.method, rq.body)
  \/ \E r \in Slots, i \in 1 .. MaxWords, ok \in BOOLEAN : FetchResponds(r, i, ok)
  \/ \E r \in Slots, i \in 1 .. MaxWords : FetchFails(r, i)
  \/ \E r \in Slots, i \in 1 .. MaxWords : TimerFires(r, i)
  \/ \E r \in Slots, i \in 1 .. MaxWords, data \in Payloads : BodyArrives(r, i, data)
  \/ \E r \in Slots, i \in 1 .. MaxWords : BodyFails(r, i)
  \/ \E r \in Slots : Respond(r)

Spec == Init /\ [][Next]_vars

(***************************************************************************)
(* One POST request whose text holds several candidate words: every        *)
(* interleaving of its concurrent lookups.                                 *)
(***************************************************************************)
\* most candidate words in the text of the request
MaxBatch == 3

BatchWords ==
  << << "a", "b" >>, << "C", "d" >>, << "e", "f" >>, << "g", "h" >>, << "i", "j" >> >>

\* the first k words, each followed by a space, then the first word again
\* in capitals
RECURSIVE BatchText(_)
BatchText(k) ==
  IF k = 0 THEN << "A", "B" >>
  ELSE BatchWords[Min(k, Len(BatchWords))] \o << " " >> \o BatchText(k - 1)

BatchRequests ==
  { [method |-> "POST", body |-> [text |-> Str(BatchText(k)), wordSize |-> Num(2)]] :
      k \in 1 .. MaxBatch }

NextBatch ==
  \/ \E rq \in BatchRequests : Handle(1, rq.method, rq.body)
  \/ \E r \in Slots, i \in 1 .. MaxWords, ok \in BOOLEAN : FetchResponds(r, i, ok)
  \/ \E r \in Slots, i \in 1 .. MaxWords : FetchFails(r, i)
  \/ \E r \in Slots, i \in 1 .. MaxWords : TimerFires(r, i)
  \/ \E r \in Slots, i \in 1 .. MaxWords, data \in Payloads : BodyArrives(r, i, data)
  \/ \E r \in Slots, i \in 1 .. MaxWords : BodyFails(r, i)
  \/ \E r \in Slots : Respond(r)

SpecBatch == Init /\ [][NextBatch]_vars

(***************************************************************************)
(* The synchronous part of handler on wider inputs: validation, word       *)
(* extraction, the slice and the launch of the lookups, then the counters  *)
(* of the 200 response.  The lookups between the launch and the response   *)
(* are followed in Spec.                                                   *)
(***************************************************************************)
ExtractChars == {"a", "A", "b", " "}

\* "The hypothesis requires rigorous analysis"
HypothesisText ==
  << "T", "h", "e", " ", "h", "y", "p", "o", "t", "h", "e", "s", "i", "s", " ",
     "r", "e", "q", "u", "i", "r", "e", "s", " ",
     "r", "i", "g", "o", "r", "o", "u", "s", " ",
     "a", "n", "a", "l", "y", "s", "i", "s" >>

\* twelve distinct words, one of them twice
WideText ==
  << "a", " ", "b", " ", "c", " ", "d", " ", "e", " ", "f", " ", "g", " ",
     "h", " ", "i", " ", "j", " ", "k", " ", "A", " ", "l" >>

\* a text that holds the characters of the pattern for wordSize = -1
BraceText == << "a", "{", "-", "1", ",", "}", "b", " ", "a", "b" >>

ExtractTexts ==
  UNION { [1 .. k -> ExtractChars] : k \in 0 .. MaxLen }
    \cup { HypothesisText, WideText, BraceText }

ExtractBodies ==
  { [text |-> Str(t), wordSize |-> w] :
      t \in ExtractTexts,
      w \in { Undefined, Num(-1), Num(0), Num(7) } \cup { Num(n) : n \in 1 .. MaxWordSize } }
    \cup { [text |-> t, wordSize |-> Num(1)] : t \in { Undefined, Num(5) } }

\* the POST request arrives: handler runs to its first await
ExtractHandle ==
  /\ extract.pc = "arrived"
  /\ IF ~ValidBody(extract.body)
     THEN extract' = [extract EXCEPT !.pc = "done",
                        !.response = [NoResponse EXCEPT !.status = 400,
                                                        !.error = "Invalid exam input"]]
     ELSE LET words == ExtractWords(extract.body.text.s, extract.body.wordSize.n)
              limitedWords == LimitWords(words)
          IN extract' = [extract EXCEPT !.pc = "waiting", !.words = words,
                           !.limitedWords = limitedWords,
                           !.launched = Cardinality({ i \in DOMAIN limitedWords :
                                                       StartLookup(limitedWords[i]).fetched })]
  /\ UNCHANGED << definitionCache, cacheOrigin, req, view >>

\* the lookups have settled: the counters of the 200 response
ExtractRespond ==
  /\ extract.pc = "waiting"
  /\ extract' = [extract EXCEPT !.pc = "done",
                   !.response = [NoResponse EXCEPT
                      !.status = 200,
                      !.totalWordsFound = TotalWordsFound(extract.words),
                      !.processedWords = ProcessedWords(extract.limitedWords)]]
  /\ UNCHANGED << definitionCache, cacheOrigin, req, view >>

InitExtract ==
  /\ definitionCache = << >>
  /\ cacheOrigin = << >>
  /\ req = [r \in Slots |-> Idle]
  /\ view = InitialView
  /\ extract \in { [NoExtract EXCEPT !.pc = "arrived", !.body = b] : b \in ExtractBodies }

NextExtract ==
  \/ ExtractHandle
  \/ ExtractRespond

SpecExtract == InitExtract /\ [][NextExtract]_vars

(***************************************************************************)
(* The client view (src/app/page.tsx): the text area, the slider, the      *)
(* submit button and handleSubmit, whose fetch is served by handler.  The  *)
(* k-th submit is the k-th invocation of handler.                          *)
(***************************************************************************)
\* Slider min={5} max={15}
SliderMin == 5
SliderMax == 15

\* most steps the slider is moved up from its minimum
MaxSlide == 2

SliderValues == SliderMin .. Min(SliderMax, SliderMin + MaxSlide)

\* what the user types or pastes
ClientTexts ==
  { << >>, << " " >>, << " ", "a", "b" >>, << "a", "b", "c", "d", "e" >> }

\* String.prototype.trim
RECURSIVE TrimStart(_)
TrimStart(s) ==
  IF s # << >> /\ Head(s) = " " THEN TrimStart(Tail(s)) ELSE s

RECURSIVE TrimEnd(_)
TrimEnd(s) ==
  IF s # << >> /\ s[Len(s)] = " " THEN TrimEnd(SubSeq(s, 1, Len(s) - 1)) ELSE s

Trim(s) == TrimEnd(TrimStart(s))

\* the submit button: disabled={isLoading || !text.trim()}
SubmitDisabled == view.isLoading \/ Trim(view.text) = << >>

\* onChange of the text area: setText
SetText(t) ==
  /\ view.on
  /\ view.text # t
  /\ view' = [view EXCEPT !.text = t]
  /\ UNCHANGED << definitionCache, cacheOrigin, req, extract >>

\* onValueChange of the slider: setWordSize
SetWordSize(n) ==
  /\ view.on
  /\ view.wordSize # n
  /\ view' = [view EXCEPT !.wordSize = n]
  /\ UNCHANGED << definitionCache, cacheOrigin, req, extract >>

\* handleSubmit up to its first await: the guard on the trimmed text, the
\* three state updates and the fetch
Submit(r) ==
  /\ view.on
  /\ ~SubmitDisabled
  /\ Trim(view.text) # << >>
  /\ view.submits[r].pc = "none"
  /\ \A q \in Slots : q < r => view.submits[q].pc # "none"
  /\ view' = [view EXCEPT !.isLoading = TRUE, !.error = "", !.meanings = << >>,
                          !.submits[r] = [pc |-> "fetching", text |-> view.text,
                                          wordSize |-> view.wordSize, ok |-> FALSE]]
  /\ UNCHANGED << definitionCache, cacheOrigin, req, extract >>

\* the POST of the r-th submit reaches handler
Arrive(r) ==
  /\ view.on
  /\ view.submits[r].pc = "fetching"
  /\ Invoke(r, "POST", [text |-> Str(view.submits[r].text),
                       wordSize |-> Num(view.submits[r].wordSize)])

\* catch and finally: setError, setIsLoading(false)
Failed(r) ==
  [view EXCEPT !.error = "Failed to process academic terminology.",
               !.isLoading = FALSE, !.submits[r].pc = "ended"]

\* after the wait that fills the first second: `if (!response.ok) throw`,
\* else the await of response.json()
AfterDelay(r, ok) ==
  IF ok THEN [view EXCEPT !.submits[r].pc = "json", !.submits[r].ok = ok]
  ELSE Failed(r)

\* fetch resolves: with the 200 response of handler, or with a status that
\* is not OK from a hop between the browser and handler; quick says that
\* less than a second has passed
FetchResolves(r, ok, quick) ==
  /\ view.on
  /\ view.submits[r].pc = "fetching"
  /\ ok => (req[r].pc = "done" /\ req[r].response.status = 200)
  /\ ~ok => (req[r].pc = "done" => req[r].response.status # 200)
  /\ view' = IF quick
             THEN [view EXCEPT !.submits[r].pc = "delay", !.submits[r].ok = ok]
             ELSE AfterDelay(r, ok)
  /\ UNCHANGED << definitionCache, cacheOrigin, req, extract >>

\* fetch rejects: network error
FetchRejects(r) ==
  /\ view.on
  /\ view.submits[r].pc = "fetching"
  /\ view' = Failed(r)
  /\ UNCHANGED << definitionCache, cacheOrigin, req, extract >>

\* the timer of the wait fires
DelayEnds(r) ==
  /\ view.on
  /\ view.submits[r].pc = "delay"
  /\ view' = AfterDelay(r, view.submits[r].ok)
  /\ UNCHANGED << definitionCache, cacheOrigin, req, extract >>

\* response.json() resolves: setMeanings(data.meanings), then finally
JsonResolves(r) ==
  /\ view.on
  /\ view.submits[r].pc = "json"
  /\ view' = [view EXCEPT !.meanings = req[r].response.meanings,
                          !.isLoading = FALSE, !.submits[r].pc = "ended"]
  /\ UNCHANGED << definitionCache, cacheOrigin, req, extract >>

\* response.json() rejects: the body did not arrive whole
JsonRejects(r) ==
  /\ view.on
  /\ view.submits[r].pc = "json"
  /\ view' = Failed(r)
  /\ UNCHANGED << definitionCache, cacheOrigin, req, extract >>

InitClient ==
  /\ definitionCache = << >>
  /\ cacheOrigin = << >>
  /\ req = [r \in Slots |-> Idle]
  /\ extract = NoExtract
  /\ view = [InitialView EXCEPT !.on = TRUE]

NextClient ==
  \/ \E t \in ClientTexts : SetText(t)
  \/ \E n \in SliderValues : SetWordSize(n)
  \/ \E r \in Slots : Submit(r)
  \/ \E r \in Slots : Arrive(r)
  \/ \E r \in Slots, i \in 1 .. MaxWords, ok \in BOOLEAN : FetchResponds(r, i, ok)
  \/ \E r \in Slots, i \in 1 .. MaxWords : FetchFails(r, i)
  \/ \E r \in Slots, i \in 1 .. MaxWords : TimerFires(r, i)
  \/ \E r \in Slots, i \in 1 .. MaxWords, data \in Payloads : BodyArrives(r, i, data)
  \/ \E r \in Slots, i \in 1 .. MaxWords : BodyFails(r, i)
  \/ \E r \in Slots : Respond(r)
  \/ \E r \in Slots, ok \in BOOLEAN, quick \in BOOLEAN : FetchResolves(r, ok, quick)
  \/ \E r \in Slots : FetchRejects(r)
  \/ \E r \in Slots : DelayEnds(r)
  \/ \E r \in Slots : JsonResolves(r)
  \/ \E r \in Slots : JsonRejects(r)

\* a POST that was sent and has neither reached handler nor failed
ArrivePending ==
  \E r \in Slots : view.submits[r].pc = "fetching" /\ req[r].pc = "idle"

\* the event loops of the browser and of the server run every timer
\* callback that is due and every continuation whose promise has settled;
\* a request that was sent arrives, and a response that was sent is
\* delivered or the connection breaks; the external source is under no
\* obligation.  Each of these steps is taken once per submit or lookup, so
\* fairness on the step of some slot is fairness on the step of each slot.
\* Arrive is enabled exactly while ArrivePending holds and is taken once
\* per submit, so its weak fairness is []<>(~ArrivePending).
FairnessClient ==
  /\ WF_vars(\E r \in Slots : Respond(r))
  /\ WF_vars(\E r \in Slots, i \in 1 .. MaxWords : TimerFires(r, i))
  /\ []<>(~ArrivePending)
  /\ WF_vars(\E r \in Slots :
               /\ req[r].pc = "done"
               /\ \/ \E ok \in BOOLEAN, quick \in BOOLEAN : FetchResolves(r, ok, quick)
                  \/ FetchRejects(r))
  /\ WF_vars(\E r \in Slots : DelayEnds(r))
  /\ WF_vars(\E r \in Slots : JsonResolves(r) \/ JsonRejects(r))

SpecClient == InitClient /\ [][NextClient]_vars /\ FairnessClient

(***************************************************************************)
(* Properties.                                                             *)
(***************************************************************************)
\* every lookup a request has started, as << slot, index >>
AllLookups == { << r, i >> \in Slots \X (1 .. MaxWords) : i \in DOMAIN req[r].lookups }

LookupAt(p) == req[p[1]].lookups[p[2]]

Answered200(r) == req[r].pc = "done" /\ req[r].response.status = 200

\* C1: the cache never holds a failure result: every entry was stored by a
\* lookup that succeeded, and a word whose lookups so far all failed is
\* looked up externally again by the next request that contains it.
C1_CacheHoldsNoFailure ==
  /\ \A w \in DOMAIN definitionCache : cacheOrigin[w] = "ok"
  /\ \A p \in AllLookups :
       LookupAt(p).word \in req[p[1]].priorFailed => LookupAt(p).fetched

C3_FailureYieldsSentinel ==
  \A p \in AllLookups :
    (LookupAt(p).st = "fulfilled" /\ LookupAt(p).outcome \in Failures)
      => LookupAt(p).result = Sentinel(LookupAt(p).word)

\* C4: a valid POST request is answered 200 with exactly one entry per
\* processed word, whatever lookups failed, and the entry of each failed
\* lookup is the sentinel entry.
C4_FailuresIsolated ==
  \A r \in Slots :
    (req[r].pc = "done" /\ req[r].method = "POST" /\ ValidBody(req[r].body))
      => /\ req[r].response.status = 200
         /\ Len(req[r].response.meanings) = Len(req[r].limitedWords)
         /\ \A i \in DOMAIN req[r].limitedWords :
              /\ req[r].response.meanings[i].word = req[r].limitedWords[i]
              /\ req[r].lookups[i].outcome \in Failures
                   => req[r].response.meanings[i]
                        = MeaningOf([word |-> req[r].limitedWords[i],
                                     result |-> Sentinel(req[r].limitedWords[i])])

\* C5: the meanings of a 200 response name the words of the truncated
\* candidate list, in its order, whatever order the lookups completed in.
C5_MeaningsInCandidateOrder ==
  \A r \in Slots :
    Answered200(r)
      => [k \in DOMAIN req[r].response.meanings |-> req[r].response.meanings[k].word]
           = req[r].limitedWords

\* a 200 response to three words whose third lookup completed first
C5_Witness ==
  \E r \in Slots :
    /\ Answered200(r)
    /\ Len(req[r].limitedWords) = 3
    /\ req[r].order = << 3, 1, 2 >>
    /\ \A i \in 1 .. 3 : req[r].lookups[i].fetched

\* the distinct lower-cased tokens of the text that are long enough
CandidateSet(body) ==
  { ToLowerCase(w) : w \in { m \in Range(Match(body.text.s, body.wordSize.n)) :
                               Len(m) >= body.wordSize.n } }

\* C6: in a 200 response totalWordsFound is the number of distinct candidate
\* words, totalWordsFound >= processedWords, processedWords is
\* min(totalWordsFound, 10), and at most 10 lookups were launched.
C6_CountersAndLimit ==
  (extract.pc = "done" /\ extract.response.status = 200)
    => /\ extract.response.totalWordsFound = Cardinality(CandidateSet(extract.body))
       /\ extract.response.totalWordsFound >= extract.response.processedWords
       /\ extract.response.processedWords = Min(extract.response.totalWordsFound, 10)
       /\ extract.launched <= 10
       /\ extract.launched = extract.response.processedWords

\* a 200 response for a text with more than ten distinct candidate words
C6_Witness ==
  /\ extract.pc = "done"
  /\ extract.response.status = 200
  /\ extract.response.totalWordsFound > 10
  /\ extract.response.processedWords = 10
  /\ extract.launched = 10

\* position in the match list of the first token that folds to w
FirstOccurrence(body, w) ==
  LET m == Match(body.text.s, body.wordSize.n)
  IN CHOOSE k \in DOMAIN m :
       /\ ToLowerCase(m[k]) = w
       /\ \A j \in 1 .. (k - 1) : ToLowerCase(m[j]) # w

\* C7: the candidate words are unique case-insensitively and appear in the
\* order of their first occurrence in the text.
C7_UniqueInFirstOccurrenceOrder ==
  extract.pc = "waiting"
    => /\ \A i, j \in DOMAIN extract.words :
            ToLowerCase(extract.words[i]) = ToLowerCase(extract.words[j]) => i = j
       /\ Range(extract.words) = CandidateSet(extract.body)
       /\ \A i, j \in DOMAIN extract.words :
            i < j => FirstOccurrence(extract.body, extract.words[i])
                       < FirstOccurrence(extract.body, extract.words[j])

\* a text in which one word occurs in two spellings that differ by case,
\* around another word
C7_Witness ==
  /\ extract.pc = "waiting"
  /\ Len(extract.words) = 2
  /\ LET m == Match(extract.body.text.s, extract.body.wordSize.n)
     IN /\ Len(m) = 3
        /\ m[1] # m[3]
        /\ ToLowerCase(m[1]) = ToLowerCase(m[3])

\* a POST body with an empty or non-string text, or without wordSize
EmptyOrMissing(body) ==
  \/ body.text.t # "string"
  \/ body.text.s = << >>
  \/ body.wordSize.t = "undefined"

\* C8: a POST whose text is empty or no string, or whose wordSize is
\* missing, is answered 400 "Invalid exam input"; handling it starts no
\* lookup and leaves the cache as it was.
C8_InvalidInputRejected ==
  /\ [](\A r \in Slots :
          (req[r].pc # "idle" /\ req[r].method = "POST" /\ EmptyOrMissing(req[r].body))
            => /\ req[r].pc = "done"
               /\ req[r].response.status = 400
               /\ req[r].response.error = "Invalid exam input"
               /\ req[r].lookups = << >>)
  /\ [][\A r \in Slots :
          (req[r].pc = "idle" /\ req'[r].method = "POST" /\ EmptyOrMissing(req'[r].body))
            => /\ definitionCache' = definitionCache
               /\ \A q \in Slots \ {r} : req'[q] = req[q]]_vars

\* a POST with an empty text has been answered 400
C8_Witness ==
  \E r \in Slots :
    /\ req[r].pc = "done"
    /\ req[r].method = "POST"
    /\ req[r].body.text = Str(<< >>)
    /\ req[r].response.status = 400

\* C9: a POST whose wordSize is a number below 1 is answered 400, with no
\* word extracted and no lookup started.
C9_WordSizeBelowOneRejected ==
  \A r \in Slots :
    (/\ req[r].pc = "done"
     /\ req[r].method = "POST"
     /\ req[r].body.wordSize.t = "number"
     /\ req[r].body.wordSize.n < 1)
      => (req[r].response.status = 400 /\ req[r].lookups = << >>)

\* C10: no lookup that has ended leaves its timeout timer pending.
C10_NoTimerLeftPending ==
  \A p \in AllLookups :
    LookupAt(p).st = "fulfilled" => LookupAt(p).timer # "pending"

(***************************************************************************)
(* Liveness.  The event loop runs every timer callback that is due and     *)
(* every continuation whose promise has settled; the external source is    *)
(* under no obligation and may stall at any stage.                         *)
(***************************************************************************)
Fairness ==
  /\ \A r \in Slots : WF_vars(Respond(r))
  /\ \A r \in Slots : \A i \in 1 .. MaxBatch : WF_vars(TimerFires(r, i))

SpecFair == Init /\ [][Next]_vars /\ Fairness

\* C11: every lookup that was started eventually ends, at whatever stage
\* the external source stalls, and so every request that waits for its
\* lookups is eventually answered.
C11_EveryLookupEnds ==
  /\ \A r \in Slots : \A i \in 1 .. MaxBatch :
       (i \in DOMAIN req[r].lookups /\ req[r].lookups[i].st # "fulfilled")
         ~> (i \in DOMAIN req[r].lookups /\ req[r].lookups[i].st = "fulfilled")
  /\ \A r \in Slots : (req[r].pc = "waiting") ~> (req[r].pc = "done")

\* C12: a request whose method is not POST is answered 405 with the Allow
\* header naming POST; handling it starts no lookup and leaves the cache
\* as it was.
C12_NonPostRejected ==
  /\ [](\A r \in Slots :
          (req[r].pc # "idle" /\ req[r].method # "POST")
            => /\ req[r].pc = "done"
               /\ req[r].response.status = 405
               /\ req[r].response.allow = "POST"
               /\ req[r].lookups = << >>)
  /\ [][\A r \in Slots :
          (req[r].pc = "idle" /\ req'[r].pc # "idle" /\ req'[r].method # "POST")
            => /\ definitionCache' = definitionCache
               /\ \A q \in Slots \ {r} : req'[q] = req[q]]_vars

\* a GET has been answered 405 while the cache already held an entry
C12_Witness ==
  \E r \in Slots :
    /\ req[r].pc = "done"
    /\ req[r].method = "GET"
    /\ req[r].response.status = 405
    /\ req[r].response.allow = "POST"
    /\ DOMAIN definitionCache # {}

\* C13: the cache is never evicted: every key is the lowercase candidate
\* word of some request, and no step removes a key.
C13_CacheOnlyGrows ==
  /\ [](\A w \in DOMAIN definitionCache :
          /\ ToLowerCase(w) = w
          /\ \E r \in Slots : w \in Range(req[r].limitedWords))
  /\ [][DOMAIN definitionCache \subseteq DOMAIN definitionCache']_vars

\* a second word has been stored next to the first, one of them found in
\* the text in upper case
C13_Witness ==
  /\ Cardinality(DOMAIN definitionCache) >= 2
  /\ \E r \in Slots :
       /\ req[r].body.text = Str(<< "C", "d", " ", "c", "D" >>)
       /\ << "c", "d" >> \in DOMAIN definitionCache

\* the tokens of a text: its maximal runs of letters, digits and underscores
Tokens(text) ==
  { SubSeq(text, i, j) : << i, j >> \in
      { p \in (1 .. Len(text)) \X (1 .. Len(text)) :
          /\ p[1] <= p[2]
          /\ \A k \in p[1] .. p[2] : IsWordChar(text[k])
          /\ (p[1] = 1 \/ ~IsWordChar(text[p[1] - 1]))
          /\ (p[2] = Len(text) \/ ~IsWordChar(text[p[2] + 1])) } }

\* C14: every candidate word is a lowercase token of length >= wordSize and
\* every token of the text of that length is a candidate; with wordSize = 7
\* the text "The hypothesis requires rigorous analysis" yields hypothesis,
\* requires, rigorous, analysis in that order.
C14_CandidatesAreLongTokens ==
  extract.pc = "waiting"
    => /\ Range(extract.words)
            = { ToLowerCase(t) : t \in { u \in Tokens(extract.body.text.s) :
                                           Len(u) >= extract.body.wordSize.n } }
       /\ (extract.body.text.s = HypothesisText /\ extract.body.wordSize.n = 7)
            => extract.words
                 = << << "h", "y", "p", "o", "t", "h", "e", "s", "i", "s" >>,
                      << "r", "e", "q", "u", "i", "r", "e", "s" >>,
                      << "r", "i", "g", "o", "r", "o", "u", "s" >>,
                      << "a", "n", "a", "l", "y", "s", "i", "s" >> >>

\* C15: when requests with the same uncached word overlap, every answered
\* request holds an entry for the word, an entry once stored is not
\* replaced by a lookup still in flight, and a request that finds the word
\* cached is served the stored entry.
C15_StoredEntryNotReplaced ==
  /\ [](\A r \in Slots :
          Answered200(r) => Len(req[r].response.meanings) = Len(req[r].limitedWords))
  /\ [](\A p \in AllLookups :
          (LookupAt(p).outcome = "hit" /\ LookupAt(p).word \in DOMAIN definitionCache)
            => LookupAt(p).result = definitionCache[LookupAt(p).word])
  /\ [][\A w \in DOMAIN definitionCache : definitionCache'[w] = definitionCache[w]]_vars

\* the submits that have started and not ended
InFlight == { r \in Slots : view.submits[r].pc \notin {"none", "ended"} }

\* C16: in the client view every submit that starts loading eventually
\* ends loading, at most one submit is in flight at a time, and after a
\* submit has ended the view never shows both a non-empty result list and
\* an error message.
C16_LoadingEndsOneSubmitAtATime ==
  /\ [](Cardinality(InFlight) <= 1)
  /\ [](view.isLoading <=> InFlight # {})
  /\ []((\E r \in Slots : view.submits[r].pc = "ended")
          => ~(view.meanings # << >> /\ view.error # ""))
  /\ view.isLoading ~> ~view.isLoading

====
